---------------------------- MODULE Spec2Model ----------------------------
(***************************************************************************)
(* URL shortener (src/index.js): an Express application over two MongoDB   *)
(* collections, Url (original_url, short_url) and Counter (_id, seq).      *)
(*                                                                         *)
(* The model has one record per HTTP request.  A request handler runs as   *)
(* a sequence of atomic steps separated by its suspension points (the      *)
(* dns.lookup callback and every awaited store operation); steps of        *)
(* different requests interleave freely.  A store operation takes effect   *)
(* atomically at the step that completes it, or fails with a connectivity  *)
(* error and then has no effect on the store.                              *)
(***************************************************************************)
EXTENDS Integers, Sequences, FiniteSets, TLC

VARIABLES
    urls,       \* the Url collection, in insertion (natural) order
    counters,   \* the Counter collection, a set of documents
    req         \* one record per HTTP request: input, locals, position, response

vars == <<urls, counters, req>>

-----------------------------------------------------------------------------
(* Bounds *)

MaxReq == 2          \* number of HTTP requests in a behaviour

Requests == 1 .. MaxReq

-----------------------------------------------------------------------------
(* JavaScript values *)

Undefined == "<undefined>"      \* an absent field of req.body
JsNull == "<null>"              \* null
NoSeq == 0 - 1                  \* a number variable that holds no value yet

\* JavaScript truthiness of a string, undefined or null
Truthy(v) == v \notin {Undefined, JsNull, ""}

\* faulty variant: a ?? b, which keeps an empty string
JsNullish(a, b) == IF a \notin {Undefined, JsNull} THEN a ELSE b

\* a || b
JsOr(a, b) == IF Truthy(a) THEN a ELSE b

\* Number(s) for the path parameter, a sequence of characters.  The result is
\* a record: fin (Number.isFinite) and, when finite, its value.
Digits == <<"0", "1", "2", "3", "4", "5", "6", "7", "8", "9">>

IsDigit(c) == \E d \in 1 .. Len(Digits) : Digits[d] = c

DigitVal(c) == (CHOOSE d \in 1 .. Len(Digits) : Digits[d] = c) - 1

RECURSIVE DecimalVal(_)
DecimalVal(s) ==
    IF s = <<>> THEN 0
    ELSE 10 * DecimalVal(SubSeq(s, 1, Len(s) - 1)) + DigitVal(s[Len(s)])

NaN == [fin |-> FALSE, val |-> 0]
Infinity == [fin |-> FALSE, val |-> 1]
InfinityLiteral == <<"I", "n", "f", "i", "n", "i", "t", "y">>

ToNumber(s) ==
    IF s # <<>> /\ \A i \in 1 .. Len(s) : IsDigit(s[i])
    THEN [fin |-> TRUE, val |-> DecimalVal(s)]
    ELSE IF s = InfinityLiteral THEN Infinity
    ELSE NaN

\* faulty variant: !Number.isNaN instead of Number.isFinite
NumberIsNotNaN(n) == n # NaN

NumberIsFinite(n) == n.fin

-----------------------------------------------------------------------------
(* new URL(input): the WHATWG parser on the candidate strings of the model *)

UrlThrows == [ok |-> FALSE, protocol |-> "", hostname |-> ""]

NewURL(input) ==
    CASE input = "http://a.com"      -> [ok |-> TRUE, protocol |-> "http:",  hostname |-> "a.com"]
      [] input = "http://a.com/y"    -> [ok |-> TRUE, protocol |-> "http:",  hostname |-> "a.com"]
      [] input = "https://b.org/x"   -> [ok |-> TRUE, protocol |-> "https:", hostname |-> "b.org"]
      [] input = "http://nx.invalid" -> [ok |-> TRUE, protocol |-> "http:",  hostname |-> "nx.invalid"]
      [] input = "ftp://a.com"       -> [ok |-> TRUE, protocol |-> "ftp:",   hostname |-> "a.com"]
      [] input = "mailto:x@a.com"    -> [ok |-> TRUE, protocol |-> "mailto:", hostname |-> ""]
      [] OTHER                       -> UrlThrows

\* hostnames whose name resolution can succeed
Resolvable == {"a.com", "b.org"}

\* the err argument dns.lookup may hand to its callback: an unknown host always
\* errors, a known one errors on a network failure or timeout
DnsErrors(hostname) == IF hostname \in Resolvable THEN {FALSE, TRUE} ELSE {TRUE}

-----------------------------------------------------------------------------
(* Helpers of src/index.js *)

\* faulty variant: any parsable URL is accepted, whatever its scheme
isParsableUrl(input) == NewURL(input).ok

isValidHttpUrl(input) ==
    LET parsed == NewURL(input) IN
    IF parsed.ok THEN parsed.protocol = "http:" \/ parsed.protocol = "https:"
    ELSE FALSE

getHostname(input) ==
    LET parsed == NewURL(input) IN
    IF parsed.ok THEN parsed.hostname ELSE JsNull

-----------------------------------------------------------------------------
(* The store: mongoose models Url and Counter *)

UrlDoc(original_url, short_url) ==
    [original_url |-> original_url, short_url |-> short_url]

\* faulty variant: the filter names a field the schema does not have, so no
\* document matches
UrlFindOneUnknownField(coll, original_url) == {}

\* Url.findOne({ original_url }): the first matching document, as a set of at
\* most one element (empty for null)
UrlFindOneByOriginalUrl(coll, original_url) ==
    LET hits == {i \in 1 .. Len(coll) : coll[i].original_url = original_url} IN
    IF hits = {} THEN {}
    ELSE {coll[CHOOSE i \in hits : \A j \in hits : i <= j]}

\* faulty variant: the filter names a field the schema does not have
UrlFindOneByShortUnknownField(coll, short) == {}

\* faulty variant: an empty filter, which matches the first document
UrlFindOneAny(coll, short) == IF coll = <<>> THEN {} ELSE {coll[1]}

\* Url.findOne({ short_url: short })
UrlFindOneByShortUrl(coll, short) ==
    LET hits == {i \in 1 .. Len(coll) : coll[i].short_url = short.val} IN
    IF hits = {} THEN {}
    ELSE {coll[CHOOSE i \in hits : \A j \in hits : i <= j]}

\* faulty variant: the schema also declares original_url unique
DuplicateKeyOrUrl(coll, doc) ==
    \E i \in 1 .. Len(coll) :
        coll[i].short_url = doc.short_url \/ coll[i].original_url = doc.original_url

\* the unique index on short_url rejects a document whose short_url is taken
DuplicateKey(coll, doc) ==
    \E i \in 1 .. Len(coll) : coll[i].short_url = doc.short_url

\* faulty variant: the save replaces the collection's content
UrlSaveReplace(coll, doc) == <<doc>>

\* newUrl.save() on a collection that accepts the document
UrlSave(coll, doc) == Append(coll, doc)

CounterDefaultSeq == 0

\* faulty variant: $set instead of $inc
CounterFindOneAndSet(coll, name) ==
    {d \in coll : d._id # name} \cup {[_id |-> name, seq |-> CounterDefaultSeq + 1]}

\* faulty variant: the increment is applied twice
CounterFindOneAndIncTwice(coll, name) ==
    IF \E d \in coll : d._id = name
    THEN {IF d._id = name THEN [d EXCEPT !.seq = @ + 2] ELSE d : d \in coll}
    ELSE coll \cup {[_id |-> name, seq |-> CounterDefaultSeq + 2]}

\* Counter.findOneAndUpdate({_id: name}, {$inc: {seq: 1}}, {new: true, upsert: true})
\* the collection after the update
CounterFindOneAndUpdate(coll, name) ==
    IF \E d \in coll : d._id = name
    THEN {IF d._id = name THEN [d EXCEPT !.seq = @ + 1] ELSE d : d \in coll}
    ELSE coll \cup {[_id |-> name, seq |-> CounterDefaultSeq + 1]}

\* faulty variant: without {new: true} the document before the update is returned
RetSeqOld(coll, name) == (CHOOSE d \in coll : d._id = name).seq - 1

\* what getNextSequence(name) returns: ret.seq of the updated document
RetSeq(coll, name) == (CHOOSE d \in coll : d._id = name).seq

-----------------------------------------------------------------------------
(* Requests and responses *)

MkBody(u, o, i) == [url |-> u, original_url |-> o, input |-> i]

NoBody == MkBody(Undefined, Undefined, Undefined)

\* request bodies of POST /api/shorturl
Bodies ==
    {NoBody,
     MkBody("http://a.com", Undefined, Undefined),
     MkBody(Undefined, "https://b.org/x", Undefined),
     MkBody(Undefined, Undefined, "http://a.com/y"),
     MkBody("http://nx.invalid", Undefined, Undefined),
     MkBody("ftp://a.com", Undefined, Undefined),
     MkBody("not a url", Undefined, Undefined),
     MkBody("", Undefined, Undefined),
     MkBody("", "ftp://a.com", "http://a.com"),
     MkBody("mailto:x@a.com", "http://a.com", Undefined)}

\* path parameters of GET /api/shorturl/:short_url
Params ==
    {<<"1">>, <<"0", "2">>, <<"9", "9">>, <<"a", "b", "c">>, InfinityLiteral}

NoResp == [error |-> "", original_url |-> "", short_url |-> NoSeq, location |-> ""]

JsonError(msg) == [NoResp EXCEPT !.error = msg]

JsonMapping(doc) ==
    [NoResp EXCEPT !.original_url = doc.original_url, !.short_url = doc.short_url]

\* faulty variant: the target is parsed again and only its hostname is kept
RedirectToHostname(target) == [NoResp EXCEPT !.location = NewURL(target).hostname]

RedirectTo(target) == [NoResp EXCEPT !.location = target]

InvalidUrl == JsonError("invalid url")
ServerError == JsonError("server error")
NotFound == JsonError("No short URL found for given input")

IdleReq ==
    [kind |-> "none", pc |-> "idle", body |-> NoBody, param |-> <<>>,
     original_url |-> Undefined, hostname |-> JsNull, dnsErr |-> FALSE,
     existing |-> {}, nextSeq |-> NoSeq, short |-> NaN, entry |-> {},
     dbErr |-> "none", status |-> 0, resp |-> NoResp, nresp |-> 0,
     ops |-> <<>>, pred |-> {}, old |-> FALSE]

\* res.status(status).json(body) / res.json(body) / res.redirect(target):
\* the response is sent and the handler returns
Respond(rec, status, body) ==
    [rec EXCEPT !.pc = "done", !.status = status, !.resp = body, !.nresp = @ + 1]

\* faulty variant: the catch block answers like the validation failures
CatchAsInvalidUrl(rec, kind) == Respond([rec EXCEPT !.dbErr = kind], 200, InvalidUrl)

\* faulty variant: the catch block logs the error and sends nothing
CatchLogOnly(rec, kind) == [rec EXCEPT !.dbErr = kind, !.pc = "done"]

\* the catch block of both handlers
CatchDbErr(rec, kind) == Respond([rec EXCEPT !.dbErr = kind], 500, ServerError)

\* the requests that have been answered
Answered == {q \in Requests : req[q].pc = "done"}

\* requests arrive one after the other: r is the next one to arrive
Arrives(r) == req[r].pc = "idle" /\ \A q \in Requests : q < r => req[q].pc # "idle"

Init ==
    /\ urls = <<>>
    /\ counters = {}
    /\ req = [r \in Requests |-> IdleReq]

-----------------------------------------------------------------------------
(* POST /api/shorturl *)

\* the handler up to the call of dns.lookup
PostShorturl(r, body) ==
    /\ Arrives(r)
    /\ LET original_url == JsOr(JsOr(body.url, body.original_url), body.input)
           rec == [req[r] EXCEPT !.kind = "create", !.body = body,
                                 !.original_url = original_url, !.pred = Answered]
           hostname == getHostname(original_url)
       IN  req' = [req EXCEPT ![r] =
                IF ~Truthy(original_url) \/ ~isValidHttpUrl(original_url)
                THEN Respond(rec, 200, InvalidUrl)
                ELSE IF ~Truthy(hostname)
                THEN Respond(rec, 200, InvalidUrl)
                ELSE [rec EXCEPT !.hostname = hostname, !.pc = "dns",
                                 !.ops = Append(@, "dns.lookup")]]
    /\ UNCHANGED <<urls, counters>>

\* the dns.lookup callback up to the await of Url.findOne
DnsCallback(r, err) ==
    /\ req[r].pc = "dns"
    /\ err \in DnsErrors(req[r].hostname)
    /\ LET rec == [req[r] EXCEPT !.dnsErr = err] IN
       req' = [req EXCEPT ![r] =
                IF err THEN Respond(rec, 200, InvalidUrl)
                ELSE [rec EXCEPT !.pc = "findOne", !.ops = Append(@, "Url.findOne")]]
    /\ UNCHANGED <<urls, counters>>

\* Url.findOne({ original_url }) completes; up to the await of getNextSequence
CreateFindOneDone(r, fail) ==
    /\ req[r].pc = "findOne"
    /\ LET existing == UrlFindOneByOriginalUrl(urls, req[r].original_url)
           rec == [req[r] EXCEPT !.existing = existing]
       IN  req' = [req EXCEPT ![r] =
                IF fail THEN CatchDbErr(req[r], "unavailable")
                ELSE IF existing # {}
                THEN Respond(rec, 200, JsonMapping(CHOOSE d \in existing : TRUE))
                ELSE [rec EXCEPT !.pc = "inc",
                                 !.ops = Append(@, "Counter.findOneAndUpdate")]]
    /\ UNCHANGED <<urls, counters>>

\* getNextSequence("url_count") completes; up to the await of newUrl.save
GetNextSequenceDone(r, fail) ==
    /\ req[r].pc = "inc"
    /\ IF fail
       THEN /\ req' = [req EXCEPT ![r] = CatchDbErr(req[r], "unavailable")]
            /\ UNCHANGED counters
       ELSE /\ counters' = CounterFindOneAndUpdate(counters, "url_count")
            /\ req' = [req EXCEPT ![r] =
                    [@ EXCEPT !.nextSeq = RetSeq(counters', "url_count"),
                              !.pc = "save", !.ops = Append(@, "Url.save")]]
    /\ UNCHANGED urls

\* newUrl.save() completes; the response
SaveDone(r, fail) ==
    /\ req[r].pc = "save"
    /\ LET newUrl == UrlDoc(req[r].original_url, req[r].nextSeq) IN
       IF fail
       THEN /\ req' = [req EXCEPT ![r] = CatchDbErr(req[r], "unavailable")]
            /\ UNCHANGED urls
       ELSE IF DuplicateKey(urls, newUrl)
       THEN /\ req' = [req EXCEPT ![r] = CatchDbErr(req[r], "conflict")]
            /\ UNCHANGED urls
       ELSE /\ urls' = UrlSave(urls, newUrl)
            /\ req' = [req EXCEPT ![r] = Respond(req[r], 200, JsonMapping(newUrl))]
    /\ UNCHANGED counters

-----------------------------------------------------------------------------
(* GET /api/shorturl/:short_url *)

\* the handler up to the await of Url.findOne
GetShorturl(r, param) ==
    /\ Arrives(r)
    /\ LET short == ToNumber(param)
           rec == [req[r] EXCEPT !.kind = "resolve", !.param = param,
                                 !.short = short, !.pred = Answered]
       IN  req' = [req EXCEPT ![r] =
                IF ~NumberIsFinite(short) THEN Respond(rec, 200, InvalidUrl)
                ELSE [rec EXCEPT !.pc = "lookup", !.ops = Append(@, "Url.findOne")]]
    /\ UNCHANGED <<urls, counters>>

\* Url.findOne({ short_url: short }) completes; the response
ResolveFindOneDone(r, fail) ==
    /\ req[r].pc = "lookup"
    /\ LET entry == UrlFindOneByShortUrl(urls, req[r].short)
           rec == [req[r] EXCEPT !.entry = entry]
       IN  req' = [req EXCEPT ![r] =
                IF fail THEN CatchDbErr(req[r], "unavailable")
                ELSE IF entry = {} THEN Respond(rec, 404, NotFound)
                ELSE Respond(rec, 302, RedirectTo((CHOOSE d \in entry : TRUE).original_url))]
    /\ UNCHANGED <<urls, counters>>

-----------------------------------------------------------------------------

Next ==
    \E r \in Requests :
        \/ \E body \in Bodies : PostShorturl(r, body)
        \/ \E err \in BOOLEAN : DnsCallback(r, err)
        \/ \E fail \in BOOLEAN : CreateFindOneDone(r, fail)
        \/ \E fail \in BOOLEAN : GetNextSequenceDone(r, fail)
        \/ \E fail \in BOOLEAN : SaveDone(r, fail)
        \/ \E param \in Params : GetShorturl(r, param)
        \/ \E fail \in BOOLEAN : ResolveFindOneDone(r, fail)

Spec == Init /\ [][Next]_vars

\* what a process exit does to a request: one that has arrived belongs to the
\* previous process from now on, and its handler, if still running, is gone
EndOfProcess(rec) ==
    IF rec.pc = "idle" THEN rec
    ELSE [rec EXCEPT !.old = TRUE,
                     !.pc = IF @ = "done" THEN "done" ELSE "dropped"]

\* faulty variant: the sequence lives in a variable of the process and is lost with it
RestartInMemoryCounter ==
    /\ \E r \in Requests : req[r].pc # "idle" /\ ~req[r].old
    /\ req' = [r \in Requests |-> EndOfProcess(req[r])]
    /\ counters' = {}
    /\ UNCHANGED urls

\* the process exits and starts again: connectDB() connects to the same
\* database and startServer() listens; no code touches the collections
Restart ==
    /\ \E r \in Requests : req[r].pc # "idle" /\ ~req[r].old
    /\ req' = [r \in Requests |-> EndOfProcess(req[r])]
    /\ UNCHANGED <<urls, counters>>

NextOrRestart == Next \/ Restart

\* the service with process restarts
SpecRestart == Init /\ [][NextOrRestart]_vars

\* the pending I/O call of request r completes, with a result or an error
IoCompletion(r) ==
    \/ \E err \in BOOLEAN : DnsCallback(r, err)
    \/ \E fail \in BOOLEAN : CreateFindOneDone(r, fail)
    \/ \E fail \in BOOLEAN : GetNextSequenceDone(r, fail)
    \/ \E fail \in BOOLEAN : SaveDone(r, fail)
    \/ \E fail \in BOOLEAN : ResolveFindOneDone(r, fail)

\* every I/O call of every request eventually completes
IoCompletes == \A r \in Requests : WF_vars(IoCompletion(r))

\* the service when no dns.lookup and no store operation stays pending for ever
FairSpec == Spec /\ IoCompletes

-----------------------------------------------------------------------------
(* Vocabulary of the properties.  rq is req or req'. *)

IsCreate(rq, r) == rq[r].kind = "create"
IsResolve(rq, r) == rq[r].kind = "resolve"
IsDone(rq, r) == rq[r].pc = "done"

\* a create answered 200 with a mapping
Succeeded(rq, r) ==
    IsCreate(rq, r) /\ IsDone(rq, r) /\ rq[r].status = 200 /\ rq[r].resp.error = ""

\* getNextSequence has returned a value to the request
Allocated(rq, r) == rq[r].nextSeq # NoSeq

\* the request inserted its mapping
Inserted(rq, r) == Succeeded(rq, r) /\ Allocated(rq, r)

\* an I/O call of the request failed (name resolution or store connectivity)
IoFailed(rq, r) == rq[r].dnsErr \/ rq[r].dbErr = "unavailable"

\* a was answered before b arrived
Before(rq, a, b) == a \in rq[b].pred

\* a and b ran concurrently: both have arrived, neither was answered before the other arrived
Overlap(rq, a, b) ==
    /\ a # b
    /\ rq[a].pc # "idle" /\ rq[b].pc # "idle"
    /\ ~Before(rq, a, b) /\ ~Before(rq, b, a)

\* no request ran concurrently with r
Alone(rq, r) == \A q \in Requests : ~Overlap(rq, q, r)

\* the value of counter "url_count"; 0 while the row does not exist
CounterValue == IF counters = {} THEN 0 ELSE RetSeq(counters, "url_count")

\* a candidate that is a well-formed absolute http/https URL with a hostname
ValidCandidate(u) ==
    /\ Truthy(u)
    /\ NewURL(u).ok
    /\ NewURL(u).protocol \in {"http:", "https:"}
    /\ NewURL(u).hostname # ""

\* a create whose candidate is not valid or whose name resolution errored
Rejected(rq, r) ==
    IsCreate(rq, r) /\ (~ValidCandidate(rq[r].original_url) \/ rq[r].dnsErr)

StoredIds == {urls[i].short_url : i \in 1 .. Len(urls)}

-----------------------------------------------------------------------------
IdempotentCreate ==
    [][ \A a, b \in Requests :
          ( /\ Succeeded(req', a) /\ IsCreate(req', b)
            /\ Before(req', a, b)
            /\ req'[b].original_url = req'[a].original_url
            /\ Alone(req', a) /\ Alone(req', b)
            /\ ~IoFailed(req', b)
            /\ req'[b] # req[b] )
          => /\ counters' = counters
             /\ urls' = urls
             /\ ~Allocated(req', b)
             /\ IsDone(req', b) =>
                   /\ Succeeded(req', b)
                   /\ req'[b].resp = req'[a].resp ]_vars

\* the second of two sequential creates of one URL has answered with the first id
IdempotentCreateWitness ==
    \E a, b \in Requests :
        /\ Inserted(req, a) /\ Succeeded(req, b) /\ Before(req, a, b)
        /\ req[b].original_url = req[a].original_url
        /\ req[b].resp.short_url = req[a].resp.short_url
        /\ CounterValue = 1 /\ Len(urls) = 1

(* C3: monotonicity.  Starting from the empty store, when the create       *)
(* requests so far all succeeded, ran one after the other and submitted    *)
(* pairwise distinct URLs, the n-th of them has answered with id n.        *)
SequentialCreates ==
    \A a \in Requests : IsCreate(req, a) =>
        /\ Succeeded(req, a)
        /\ \A b \in Requests : (IsCreate(req, b) /\ a < b) =>
              /\ Before(req, a, b)
              /\ req[a].original_url # req[b].original_url

Rank(a) == Cardinality({b \in Requests : IsCreate(req, b) /\ b <= a})

Monotonicity ==
    SequentialCreates =>
        \A a \in Requests : IsCreate(req, a) => req[a].resp.short_url = Rank(a)

\* every request was a create, one after the other, and the last got the last id
MonotonicityWitness ==
    /\ SequentialCreates
    /\ \A a \in Requests : IsCreate(req, a)
    /\ req[MaxReq].resp.short_url = MaxReq

(* C4: concurrent creates of distinct URLs.  Let S be create requests for   *)
(* pairwise distinct valid URLs that were not stored when looked up, all   *)
(* answered, none of their I/O calls having failed, and let every other    *)
(* request that allocated an id have been answered before any of S         *)
(* arrived, c being the number of those allocations.  Then every request   *)
(* of S answered with success, their ids are pairwise distinct and are     *)
(* exactly c+1 .. c+K, and the counter stands at c+K.                      *)
ConcurrentBatch(S) ==
    /\ S # {}
    /\ \A s \in S :
          /\ IsCreate(req, s) /\ IsDone(req, s)
          /\ ValidCandidate(req[s].original_url)
          /\ ~IoFailed(req, s)
          /\ req[s].existing = {}
    /\ \A s, t \in S : s # t => req[s].original_url # req[t].original_url
    /\ \A q \in Requests \ S : Allocated(req, q) => \A s \in S : Before(req, q, s)

ConcurrentCreates ==
    \A S \in SUBSET Requests :
        ConcurrentBatch(S) =>
            LET c == Cardinality({q \in Requests \ S : Allocated(req, q)})
                K == Cardinality(S)
            IN  /\ \A s \in S : Succeeded(req, s)
                /\ \A s, t \in S : s # t => req[s].resp.short_url # req[t].resp.short_url
                /\ {req[s].resp.short_url : s \in S} = (c + 1) .. (c + K)
                /\ CounterValue = c + K

\* two overlapping creates of distinct URLs, the later arrival allocating first
ConcurrentCreatesWitness ==
    \E s, t \in Requests :
        /\ s < t /\ Overlap(req, s, t)
        /\ ConcurrentBatch({s, t})
        /\ req[t].resp.short_url = 1 /\ req[s].resp.short_url = 2

(* C5: atomic allocation.  The values getNextSequence has returned are     *)
(* pairwise distinct and are exactly 1 .. n for n calls that returned, on  *)
(* a counter that did not exist at first; the counter row exists from the  *)
(* first call on, is the only row and holds n.                             *)
AtomicAllocation ==
    LET A == {r \in Requests : Allocated(req, r)} IN
    /\ \A r, q \in A : r # q => req[r].nextSeq # req[q].nextSeq
    /\ {req[r].nextSeq : r \in A} = 1 .. Cardinality(A)
    /\ counters = IF A = {} THEN {}
                  ELSE {[_id |-> "url_count", seq |-> Cardinality(A)]}

\* the first two calls on the missing counter were concurrent and returned 1 and 2
AtomicAllocationWitness ==
    \E r, q \in Requests :
        /\ Overlap(req, r, q)
        /\ req[r].pc = "save" /\ req[q].pc = "save"
        /\ req[r].nextSeq = 1 /\ req[q].nextSeq = 2

(* C6 as stated: the original_url values of the stored mappings are        *)
(* pairwise distinct in every reachable state.                             *)
DistinctOriginalUrls ==
    \A i, j \in 1 .. Len(urls) : i # j => urls[i].original_url # urls[j].original_url

(* C6 amended: two stored mappings with the same original_url were         *)
(* inserted by two create requests that ran concurrently; mappings         *)
(* inserted by requests that did not overlap have distinct original_urls.  *)
DistinctUnlessOverlap ==
    /\ \A i, j \in 1 .. Len(urls) :
          (i # j /\ urls[i].original_url = urls[j].original_url) =>
              \E a, b \in Requests :
                  /\ Overlap(req, a, b)
                  /\ Inserted(req, a) /\ req[a].nextSeq = urls[i].short_url
                  /\ Inserted(req, b) /\ req[b].nextSeq = urls[j].short_url
    /\ \A a, b \in Requests :
          (a # b /\ Inserted(req, a) /\ Inserted(req, b) /\ ~Overlap(req, a, b))
              => req[a].original_url # req[b].original_url

\* a create that arrived after the insert of the same URL found it and inserted nothing
DistinctUnlessOverlapWitness ==
    \E a, b \in Requests :
        /\ Inserted(req, a) /\ Before(req, a, b)
        /\ IsCreate(req, b) /\ IsDone(req, b)
        /\ req[b].existing = {UrlDoc(req[a].original_url, req[a].nextSeq)}
        /\ urls = <<UrlDoc(req[a].original_url, req[a].nextSeq)>>

(* C7: same-URL race.  Two create requests for the same URL that both      *)
(* missed in their lookup and suffered no connectivity failure ran         *)
(* concurrently, were given distinct ids, both inserted and both answered  *)
(* with success: the store then holds two mappings with that original_url. *)
SameUrlRace ==
    \A a, b \in Requests :
        ( /\ a # b
          /\ IsCreate(req, a) /\ IsCreate(req, b)
          /\ req[a].original_url = req[b].original_url
          /\ Allocated(req, a) /\ Allocated(req, b)
          /\ IsDone(req, a) /\ IsDone(req, b)
          /\ ~IoFailed(req, a) /\ ~IoFailed(req, b) )
        => /\ Overlap(req, a, b)
           /\ req[a].nextSeq # req[b].nextSeq
           /\ \A x \in {a, b} :
                 /\ Succeeded(req, x)
                 /\ req[x].resp = JsonMapping(UrlDoc(req[x].original_url, req[x].nextSeq))
                 /\ \E i \in 1 .. Len(urls) :
                       urls[i] = UrlDoc(req[x].original_url, req[x].nextSeq)

\* the interleaving exists: both looked up before either saved, and the store
\* holds the URL twice
SameUrlRaceWitness ==
    \E a, b \in Requests :
        /\ Overlap(req, a, b)
        /\ Inserted(req, a) /\ Inserted(req, b)
        /\ req[a].existing = {} /\ req[b].existing = {}
        /\ req[a].original_url = req[b].original_url
        /\ Len(urls) = 2
        /\ urls[1].original_url = urls[2].original_url
        /\ urls[1].short_url # urls[2].short_url

(* C8: no gaps.  In every reachable state in which no request that was     *)
(* given an id ended in a store error and no request stands between its    *)
(* counter increment and its insert, the stored ids are exactly            *)
(* 1 .. v for v the value of counter "url_count" (0 while it is missing).  *)
NoSaveFailed ==
    \A r \in Requests : (Allocated(req, r) /\ IsDone(req, r)) => req[r].dbErr = "none"

NoneSuspended == \A r \in Requests : req[r].pc # "save"

NoGaps == (NoSaveFailed /\ NoneSuspended) => StoredIds = 1 .. CounterValue

\* the counter stands at MaxReq and every id up to it is stored
NoGapsWitness ==
    /\ NoSaveFailed /\ NoneSuspended
    /\ CounterValue = MaxReq
    /\ StoredIds = 1 .. MaxReq

(* C9: invalid input rejection.  A create whose candidate is missing,      *)
(* empty, unparsable, of a scheme other than http/https or without         *)
(* hostname, or whose name resolution errored, has answered 200 with       *)
(* {error: "invalid url"}, has issued no store operation, and none of its  *)
(* steps changes the counter or the mapping store.                         *)
InvalidInputRejected ==
    [][ \A r \in Requests :
          /\ Rejected(req', r) =>
                /\ IsDone(req', r)
                /\ req'[r].status = 200
                /\ req'[r].resp = InvalidUrl
                /\ req'[r].nresp = 1
                /\ \A i \in 1 .. Len(req'[r].ops) : req'[r].ops[i] = "dns.lookup"
          /\ (req'[r] # req[r] /\ (Rejected(req', r) \/ req'[r].pc = "dns")) =>
                /\ urls' = urls
                /\ counters' = counters ]_vars

\* one create was rejected for its scheme, another because name resolution errored
InvalidInputRejectedWitness ==
    \E r, q \in Requests :
        /\ Rejected(req, r) /\ IsDone(req, r) /\ req[r].original_url = "ftp://a.com"
        /\ Rejected(req, q) /\ IsDone(req, q) /\ req[q].dnsErr
        /\ req[q].resp = InvalidUrl

(* C10: resolve of an unknown id.  When the lookup of a resolve request     *)
(* completes without a store failure and the store holds no mapping with   *)
(* the requested id at that moment, the request answers 404 with           *)
(* {error: "No short URL found for given input"}.                          *)
ResolveUnknownId ==
    [][ \A g \in Requests :
          ( /\ req[g].pc = "lookup" /\ req'[g].pc = "done"
            /\ req'[g].dbErr = "none"
            /\ req[g].short.val \notin StoredIds )
          => /\ req'[g].status = 404
             /\ req'[g].resp = NotFound
             /\ req'[g].nresp = 1 ]_vars

\* id 99 was resolved against a store that holds a mapping, and answered 404
ResolveUnknownIdWitness ==
    \E g \in Requests :
        /\ IsResolve(req, g) /\ IsDone(req, g)
        /\ req[g].short = [fin |-> TRUE, val |-> 99]
        /\ req[g].status = 404
        /\ Len(urls) = 1

(* C11: resolve of a non-numeric identifier.  A resolve request whose path  *)
(* parameter does not convert to a finite number has answered 200 with     *)
(* {error: "invalid url"}, once, and has issued no store lookup.           *)
ResolveNonNumeric ==
    \A g \in Requests :
        (IsResolve(req, g) /\ ~ToNumber(req[g].param).fin) =>
            /\ IsDone(req, g)
            /\ req[g].status = 200
            /\ req[g].resp = InvalidUrl
            /\ req[g].nresp = 1
            /\ req[g].ops = <<>>
            /\ req[g].entry = {}

\* "abc" and "Infinity" were both resolved and answered invalid url
ResolveNonNumericWitness ==
    \E g, h \in Requests :
        /\ IsResolve(req, g) /\ req[g].param = <<"a", "b", "c">>
        /\ IsResolve(req, h) /\ req[h].param = InfinityLiteral
        /\ req[g].resp = InvalidUrl /\ req[h].resp = InvalidUrl

(* C12: storage failure on create.  A create request one of whose store    *)
(* operations failed has answered 500 with {error: "server error"}, once,  *)
(* has issued every operation at most once and none after the failure,     *)
(* and has added no mapping; when it had been given an id, the counter     *)
(* stays at or above that id and no stored mapping ever carries it.        *)
Pipeline == <<"dns.lookup", "Url.findOne", "Counter.findOneAndUpdate", "Url.save">>

IsPrefix(s, t) == Len(s) <= Len(t) /\ \A i \in 1 .. Len(s) : s[i] = t[i]

StorageFailureOnCreate ==
    \A r \in Requests :
        (IsCreate(req, r) /\ req[r].dbErr # "none") =>
            /\ IsDone(req, r)
            /\ req[r].status = 500
            /\ req[r].resp = ServerError
            /\ req[r].nresp = 1
            /\ IsPrefix(req[r].ops, Pipeline) /\ Len(req[r].ops) >= 2
            /\ Allocated(req, r) <=> Len(req[r].ops) = 4
            /\ \A i \in 1 .. Len(urls) :
                  urls[i] # UrlDoc(req[r].original_url, req[r].nextSeq)
            /\ Allocated(req, r) =>
                  /\ CounterValue >= req[r].nextSeq
                  /\ req[r].nextSeq \notin StoredIds

\* the insert of id 1 failed; a later create was given id 2 and id 1 stays unused
StorageFailureOnCreateWitness ==
    \E r, q \in Requests :
        /\ IsCreate(req, r) /\ req[r].dbErr = "unavailable" /\ req[r].nextSeq = 1
        /\ req[r].status = 500
        /\ Inserted(req, q) /\ req[q].nextSeq = 2
        /\ req[q].original_url = req[r].original_url
        /\ StoredIds = {2}

(* C13: durable allocation across restarts.  After a restart of the        *)
(* process, which drops every running handler and keeps the store, every   *)
(* id allocated by the new process is greater than every id allocated      *)
(* before, every mapping inserted before is still the one its id selects,  *)
(* and a resolve of that id by the new process redirects to its URL.       *)
DurableAllocation ==
    /\ \A a, b \in Requests :
          (req[a].old /\ Allocated(req, a) /\ ~req[b].old /\ Allocated(req, b))
              => req[b].nextSeq > req[a].nextSeq
    /\ \A a \in Requests :
          (req[a].old /\ Inserted(req, a)) =>
              /\ UrlFindOneByShortUrl(urls, [fin |-> TRUE, val |-> req[a].nextSeq])
                    = {UrlDoc(req[a].original_url, req[a].nextSeq)}
              /\ \A g \in Requests :
                    ( /\ ~req[g].old /\ IsResolve(req, g) /\ IsDone(req, g)
                      /\ req[g].dbErr = "none"
                      /\ req[g].short = [fin |-> TRUE, val |-> req[a].nextSeq] )
                    => /\ req[g].status = 302
                       /\ req[g].resp.location = req[a].original_url

\* a restart dropped a handler that held id 1; the new process allocated id 2
DurableAllocationWitness ==
    \E a, b \in Requests :
        /\ req[a].old /\ req[a].pc = "dropped" /\ req[a].nextSeq = 1
        /\ ~req[b].old /\ Inserted(req, b) /\ req[b].nextSeq = 2

(* C14 as stated: the candidate of a create request is the value of the    *)
(* first field present in the body, in the order url, original_url,        *)
(* input (an absent and an empty candidate being taken as the same).       *)
FirstPresent(body) ==
    IF body.url # Undefined THEN body.url
    ELSE IF body.original_url # Undefined THEN body.original_url
    ELSE body.input

NonEmpty(v) == v # Undefined /\ v # ""

PcRank(pc) ==
    CASE pc = "idle" -> 0
      [] pc = "dns" -> 1
      [] pc = "findOne" -> 2
      [] pc = "inc" -> 3
      [] pc = "save" -> 4
      [] OTHER -> 5

CreatePipelineOrder ==
    [][ /\ \A r \in Requests :
              (IsCreate(req', r) /\ req'[r] # req[r]) =>
                  /\ PcRank(req'[r].pc) > PcRank(req[r].pc)
                  /\ IsPrefix(req[r].ops, req'[r].ops)
                  /\ IsPrefix(req'[r].ops, Pipeline)
                  /\ Len(req'[r].ops) <= Len(req[r].ops) + 1
                  /\ req'[r].pc # "done" => Len(req'[r].ops) = PcRank(req'[r].pc)
                  /\ req'[r].nextSeq # req[r].nextSeq =>
                        /\ req[r].pc = "inc"
                        /\ counters' # counters
                        /\ req'[r].nextSeq = RetSeq(counters', "url_count")
        /\ counters' # counters =>
              \E r \in Requests :
                  /\ IsCreate(req, r) /\ req[r].pc = "inc" /\ req'[r].pc = "save"
                  /\ ValidCandidate(req[r].original_url)
                  /\ NewURL(req[r].original_url).hostname \in Resolvable
                  /\ ~req[r].dnsErr
                  /\ req[r].existing = {}
                  /\ \A q \in Requests \ {r} : req'[q] = req[q]
        /\ urls' # urls =>
              \E r \in Requests :
                  /\ IsCreate(req, r) /\ req[r].pc = "save" /\ req'[r].pc = "done"
                  /\ Allocated(req, r)
                  /\ urls' = Append(urls, UrlDoc(req[r].original_url, req[r].nextSeq))
                  /\ \A q \in Requests \ {r} : req'[q] = req[q] ]_vars

\* a create went through the whole pipeline and inserted with the id it was given
CreatePipelineOrderWitness ==
    \E r \in Requests :
        /\ Inserted(req, r)
        /\ req[r].ops = Pipeline
        /\ urls = <<UrlDoc(req[r].original_url, req[r].nextSeq)>>

(* C16: mappings are immutable and permanent.  Every step keeps every      *)
(* stored mapping in the store, with the same id and the same original_url.*)
MappingsPermanent ==
    [][ \A i \in 1 .. Len(urls) : i <= Len(urls') /\ urls'[i] = urls[i] ]_vars

\* a mapping stayed as it was while a later create of another URL ended in a store error
MappingsPermanentWitness ==
    \E a, b \in Requests :
        /\ Inserted(req, a) /\ Before(req, a, b)
        /\ IsCreate(req, b) /\ req[b].dbErr = "unavailable"
        /\ req[b].original_url # req[a].original_url
        /\ urls = <<UrlDoc(req[a].original_url, req[a].nextSeq)>>

(* C17: counter monotonicity.  The allocation step of a create request     *)
(* raises counter "url_count" by exactly 1, from no row to 1 the first     *)
(* time; every other step leaves the Counter collection as it is; the row  *)
(* is never removed and there is never a second row.                       *)
CounterMonotone ==
    [][ /\ IF \E r \in Requests :
                  IsCreate(req, r) /\ req[r].pc = "inc" /\ req'[r].pc = "save"
           THEN CounterValue' = CounterValue + 1
           ELSE counters' = counters
        /\ counters # {} => counters' # {}
        /\ (counters = {} /\ counters' # {}) => CounterValue' = 1
        /\ Cardinality(counters') <= 1 ]_vars

\* the counter stands at MaxReq although an allocated id was lost to a failed insert
CounterMonotoneWitness ==
    /\ CounterValue = MaxReq
    /\ \E r \in Requests : Allocated(req, r) /\ req[r].dbErr = "unavailable"
    /\ \A r \in Requests : IsDone(req, r)

(* C18: id uniqueness and bound.  In every reachable state no two stored   *)
(* mappings have the same id, every stored id lies in 1 .. v for v the     *)
(* counter value, and no insert of a create has failed on an id conflict.  *)
IdsUniqueAndBounded ==
    /\ \A i, j \in 1 .. Len(urls) : i # j => urls[i].short_url # urls[j].short_url
    /\ StoredIds \subseteq 1 .. CounterValue
    /\ \A r \in Requests : req[r].dbErr # "conflict"

\* two inserts were made by overlapping requests, in the reverse order of their ids
IdsUniqueAndBoundedWitness ==
    /\ Len(urls) = 2
    /\ urls[1].short_url = 2 /\ urls[2].short_url = 1
    /\ CounterValue = 2

(* C19: resolve is read-only.  No step of a resolve request changes the    *)
(* counter or the mapping store; a resolve issues nothing but one lookup   *)
(* in the Url collection (no name resolution); and when it redirects, the  *)
(* target is the original_url of the stored mapping with the requested id, *)
(* as stored.                                                              *)
ResolveReadOnly ==
    [][ \A g \in Requests :
          (IsResolve(req', g) /\ req'[g] # req[g]) =>
              /\ urls' = urls
              /\ counters' = counters
              /\ req'[g].ops \in {<<>>, <<"Url.findOne">>}
              /\ req'[g].hostname = JsNull /\ ~req'[g].dnsErr
              /\ req'[g].status = 302 =>
                    \E i \in 1 .. Len(urls) :
                        /\ urls[i].short_url = req[g].short.val
                        /\ req'[g].resp = [NoResp EXCEPT !.location = urls[i].original_url] ]_vars

\* a resolve redirected after its single lookup, and the store is as the create left it
ResolveReadOnlyWitness ==
    \E g \in Requests :
        /\ IsResolve(req, g) /\ req[g].status = 302
        /\ req[g].ops = <<"Url.findOne">>
        /\ req[g].resp.location = "https://b.org/x"
        /\ urls = <<UrlDoc("https://b.org/x", 1)>>
        /\ CounterValue = 1

(* C20: exactly one response.  When every I/O call eventually completes,   *)
(* every request that has arrived is eventually answered (from some point  *)
(* on none is left unanswered); no request is ever answered twice, a       *)
(* handler that has finished has answered exactly once, and the answer is  *)
(* one of success, invalid url, not found, redirect and server error.      *)
ResponseKinds(r) ==
    \/ /\ req[r].status = 200 /\ req[r].resp = InvalidUrl
    \/ /\ req[r].status = 200 /\ IsCreate(req, r)
       /\ req[r].resp = JsonMapping(UrlDoc(req[r].original_url, req[r].resp.short_url))
       /\ req[r].resp.short_url >= 1
    \/ /\ req[r].status = 404 /\ IsResolve(req, r) /\ req[r].resp = NotFound
    \/ /\ req[r].status = 302 /\ IsResolve(req, r)
       /\ req[r].resp = [NoResp EXCEPT !.location = req[r].resp.location]
       /\ req[r].resp.location # ""
    \/ /\ req[r].status = 500 /\ req[r].resp = ServerError

AnsweredOnce ==
    \A r \in Requests :
        /\ req[r].nresp <= 1
        /\ IsDone(req, r) <=> req[r].nresp = 1
        /\ IsDone(req, r) => ResponseKinds(r)
        /\ ~IsDone(req, r) => (req[r].status = 0 /\ req[r].resp = NoResp)

\* every request that has arrived has been answered, once
AllAnswered ==
    \A r \in Requests : req[r].pc = "idle" \/ (IsDone(req, r) /\ req[r].nresp = 1)

\* An answer is never taken back, so "from some point on every request that
\* has arrived has been answered" says that each of them is eventually answered.
ExactlyOneResponse == []AnsweredOnce /\ <>[]AllAnswered

\* the storage-error path and the name-resolution callback each answered once
ExactlyOneResponseWitness ==
    \E r, q \in Requests :
        /\ IsCreate(req, r) /\ req[r].dbErr = "unavailable" /\ req[r].status = 500
        /\ req[r].nresp = 1
        /\ IsCreate(req, q) /\ req[q].dnsErr /\ req[q].status = 200
        /\ req[q].nresp = 1

=============================================================================
